---- MODULE Spec2Model ----
(***************************************************************************)
(* Model of sim_energy_system_cap.py: a capacitor energy store fed by a    *)
(* solar array, stepped over a fixed time horizon.                         *)
(*                                                                         *)
(* Numbers.  The script computes with Python floats.  Here every quantity  *)
(* is an integer in its SI unit (V, A, C, W, s, F, Ohm, m^2).  Sums,       *)
(* differences and products of such values are exact, as they are in       *)
(* binary floating point for integers of this size.  A quotient and a      *)
(* square root are rounded down to the next integer (Div, ISqrt) where the *)
(* float operation rounds to the nearest double.  Comparisons, the exact   *)
(* zero tests and the exception raised by a zero divisor are those of the  *)
(* script.                                                                 *)
(*                                                                         *)
(* The rounding of the float operations themselves (underflow, overflow,   *)
(* round to nearest even) is modelled for the initial-state computation in *)
(* a second specification, FloatSpec, further down.                        *)
(*                                                                         *)
(* A parameter still holding its NaN placeholder and a name not yet bound   *)
(* hold reserved integers (nan, unbound); no action reads them.            *)
(*                                                                         *)
(* Control.  pc is the position of the script; one action per block of     *)
(* statements, named after the block's comment in the source.              *)
(***************************************************************************)
EXTENDS Integers, Sequences, FiniteSets, TLC

VARIABLES
    argc, argv,                                     \* len(sys.argv), sys.argv[1:]
    sa_m2, eff, voc, c_f, r_esr, q0_c, p_on_w,      \* the ten parameters
    v_thresh, drun_time_track, dur_s,
    power_generated, effective_power, short_circ_current,
    i_resultant_a, q_resultant, p_consumption, run_time_track,
    expr1, discriminant_value, expr2, capacit_term_volt,
    i3_a, log,
    stdout, csv, exitcode, exc, pc

args   == <<argc, argv>>
params == <<sa_m2, eff, voc, c_f, r_esr, q0_c, p_on_w, v_thresh,
            drun_time_track, dur_s>>
solar  == <<power_generated, effective_power, short_circ_current>>
elec   == <<i_resultant_a, q_resultant, p_consumption>>
quad   == <<expr1, discriminant_value, expr2, capacit_term_volt>>
outs   == <<stdout, csv, exitcode>>
vars   == <<args, params, solar, elec, quad, run_time_track, i3_a, log,
            outs, exc, pc>>

----------------------------------------------------------------------------
(* Bounds of the model *)

\* longest simulated duration, in seconds
MaxDur == 4

\* most samples a run of at most MaxDur seconds can emit with a step of at
\* least one second: the initial sample, the sample of time 0 and one per
\* second up to the first time >= MaxDur; one spare
MaxSamples == MaxDur + 3

----------------------------------------------------------------------------
(* Values *)

\* float('nan'), the placeholder of a parameter before it is parsed: a
\* reserved integer that no input and no computation of the model yields
nan == -1000000

\* the value of a name that is not yet bound: a second reserved integer
unbound == nan - 1

\* no exception raised, no file written
none == <<>>

\* irradiance 1336.1 W/m^2, in units of 0.1 W/m^2
irrad == 13361

\* a / b for b # 0, rounded down
Div(a, b) == IF b > 0 THEN a \div b ELSE (-a) \div (-b)

RECURSIVE SqrtSearch(_, _, _)
SqrtSearch(n, lo, hi) ==
    IF lo >= hi THEN lo
    ELSE LET mid == (lo + hi + 1) \div 2
         IN  IF mid * mid <= n THEN SqrtSearch(n, mid, hi)
                               ELSE SqrtSearch(n, lo, mid - 1)

\* math.sqrt(n) for n >= 0, rounded down
ISqrt(n) == SqrtSearch(n, 0, n)

Last(s) == s[Len(s)]

----------------------------------------------------------------------------
(* Inputs *)

ArgCounts == {10, 11, 12}

SaSet     == {0, 1}
EffSet    == {1}
VocSet    == {0, 20, 50}
CfSet     == {0, 2, 5}
ResrSet   == {0, 1, 3}
Q0Set     == {-30, 0, 7, 60}
PonSet    == {-100, 0, 100, 400}
VthSet    == {10, 60}
DtSet     == {1, 2, 3}
DurSet    == 0 .. MaxDur

\* the command lines with ten positional arguments
TenArgs ==
    { <<a, e, v, c, r, q, p, t, d, u>> :
        a \in SaSet, e \in EffSet, v \in VocSet, c \in CfSet, r \in ResrSet,
        q \in Q0Set, p \in PonSet, t \in VthSet, d \in DtSet, u \in DurSet }

\* command lines with nine and with eleven positional arguments
NineArgs   == { <<1, 1, 20, 2, 1, 0, 100, 10, 1>> }
ElevenArgs == { <<1, 1, 20, 2, 1, 0, 100, 10, 1, 2, 7>> }

ArgvOf(n) == IF n = 11 THEN TenArgs
             ELSE IF n = 10 THEN NineArgs ELSE ElevenArgs

----------------------------------------------------------------------------
(* The expressions of the script *)

\* variants of the expressions below, each a slip the script could contain
LoopCond_Ne(t, d) == t # d
LoopCond_Le(t, d) == t <= d
ClampCharge_None(q) == q
RecoverPower_Keep(d, p) == p
ArrayLimit_Off(v, i) == i
LoadLimit_Off(v, p) == p
NextTime_Stuck(t) == t

ArrayCurrent_Latched(v) == IF v >= voc THEN 0 ELSE i_resultant_a
ReEnable_AtThreshold(p, v) == IF p = 0 /\ v >= v_thresh THEN p_on_w ELSE p
RecoverPower_Half(d, p) == IF d < 0 THEN p \div 2 ELSE p
ArrayLimit_Strict(v, i) == IF voc < v /\ i # 0 THEN 0 ELSE i
LinearTerm_Minus(q, i) == Div(q, c_f) - i * r_esr

\* while log[-1][0] < dur_s
LoopCond(t, d) == t < d

\* q_resultant = max(q_resultant, 0.0)
ClampCharge(q) == IF q > 0 THEN q ELSE 0

\* short_circ_current if 0 <= capacit_term_volt < voc else 0.0
ArrayCurrent(v) == IF 0 <= v /\ v < voc THEN short_circ_current ELSE 0

\* if p_consumption == 0.0 and capacit_term_volt >= voc: p_consumption = p_on_w
ReEnable(p, v) == IF p = 0 /\ v >= voc THEN p_on_w ELSE p

\* q_resultant / c_f + i_resultant_a * r_esr
LinearTerm(q, i) == Div(q, c_f) + i * r_esr

\* expr1**2 - 4 * p_consumption * r_esr
Discriminant(e, p) == e * e - 4 * p * r_esr

\* if discriminant_value < 0.0: p_consumption = 0.0
RecoverPower(d, p) == IF d < 0 THEN 0 ELSE p

\* (expr2 + math.sqrt(discriminant_value)) / 2
NodeVoltage(e, d) == Div(e + ISqrt(d), 2)

\* if voc <= capacit_term_volt and i_resultant_a != 0.0: i_resultant_a = 0.0
ArrayLimit(v, i) == IF voc <= v /\ i # 0 THEN 0 ELSE i

\* if capacit_term_volt < v_thresh: p_consumption = 0.0
LoadLimit(v, p) == IF v < v_thresh THEN 0 ELSE p

\* run_time_track += drun_time_track
NextTime(t) == t + drun_time_track

\* a float division raises ZeroDivisionError exactly when the divisor is 0
DivFaults(b) == b = 0

----------------------------------------------------------------------------
(* Initial state: the module-level placeholders, before the arguments are  *)
(* read                                                                    *)

Init ==
    /\ argc \in ArgCounts
    /\ argv \in ArgvOf(argc)
    /\ sa_m2 = nan /\ eff = nan /\ voc = nan /\ c_f = nan /\ r_esr = nan
    /\ q0_c = nan /\ p_on_w = nan /\ v_thresh = nan
    /\ drun_time_track = nan /\ dur_s = nan
    /\ power_generated = unbound /\ effective_power = unbound
    /\ short_circ_current = unbound
    /\ i_resultant_a = unbound /\ q_resultant = unbound
    /\ p_consumption = unbound /\ run_time_track = unbound
    /\ expr1 = unbound /\ discriminant_value = unbound /\ expr2 = unbound
    /\ capacit_term_volt = unbound
    /\ i3_a = unbound
    /\ log = <<>>
    /\ stdout = <<>>
    /\ csv = none
    /\ exitcode = unbound
    /\ exc = none
    /\ pc = "parse"

\* an uncaught exception ends the script with a traceback and status 1
Raise(e, line) ==
    /\ exc' = <<e, line>>
    /\ exitcode' = 1
    /\ pc' = "fault"

----------------------------------------------------------------------------
(* Check and parse command-line arguments *)

\* variant of ParseArgs: the message is printed but the script goes on
ParseArgs_NoExit ==
    /\ pc = "parse"
    /\ IF argc = 11
       THEN /\ sa_m2' = argv[1] /\ eff' = argv[2] /\ voc' = argv[3]
            /\ c_f' = argv[4] /\ r_esr' = argv[5] /\ q0_c' = argv[6]
            /\ p_on_w' = argv[7] /\ v_thresh' = argv[8]
            /\ drun_time_track' = argv[9] /\ dur_s' = argv[10]
            /\ UNCHANGED <<stdout, exitcode>>
       ELSE /\ stdout' = Append(stdout, "Incorrect amount of arguments")
            /\ UNCHANGED <<params, exitcode>>
    /\ pc' = "solar"
    /\ UNCHANGED <<args, solar, elec, quad, run_time_track, i3_a, log, csv, exc>>

ParseArgs ==
    /\ pc = "parse"
    /\ IF argc = 11
       THEN /\ sa_m2' = argv[1] /\ eff' = argv[2] /\ voc' = argv[3]
            /\ c_f' = argv[4] /\ r_esr' = argv[5] /\ q0_c' = argv[6]
            /\ p_on_w' = argv[7] /\ v_thresh' = argv[8]
            /\ drun_time_track' = argv[9] /\ dur_s' = argv[10]
            /\ pc' = "solar"
            /\ UNCHANGED <<stdout, exitcode>>
       ELSE /\ stdout' = Append(stdout, "Incorrect amount of arguments")
            /\ exitcode' = 0
            /\ pc' = "exit"
            /\ UNCHANGED params
    /\ UNCHANGED <<args, solar, elec, quad, run_time_track, i3_a, log, csv, exc>>

(* Calculation of solar current *)
SolarCurrent ==
    /\ pc = "solar"
    /\ power_generated' = Div(irrad * sa_m2, 10)
    /\ effective_power' = power_generated' * eff
    /\ IF DivFaults(voc)
       THEN /\ Raise("ZeroDivisionError", 63)
            /\ UNCHANGED <<short_circ_current, elec, run_time_track, stdout, csv>>
       ELSE /\ short_circ_current' = Div(effective_power', voc)
            /\ i_resultant_a' = short_circ_current'
            /\ q_resultant' = q0_c
            /\ p_consumption' = p_on_w
            /\ run_time_track' = 0
            /\ pc' = "disc0"
            /\ UNCHANGED <<outs, exc>>
    /\ UNCHANGED <<args, params, quad, i3_a, log>>

(* Discriminant calculation *)
InitDiscriminant ==
    /\ pc = "disc0"
    /\ IF DivFaults(c_f)
       THEN /\ Raise("ZeroDivisionError", 70)
            /\ UNCHANGED <<expr1, discriminant_value, stdout, csv>>
       ELSE /\ expr1' = LinearTerm(q_resultant, i_resultant_a)
            /\ discriminant_value' = Discriminant(expr1', p_consumption)
            /\ pc' = "recover0"
            /\ UNCHANGED <<outs, exc>>
    /\ UNCHANGED <<args, params, solar, elec, expr2, capacit_term_volt,
                   run_time_track, i3_a, log>>

(* Handle invalid discriminant scenario *)
InitRecover ==
    /\ pc = "recover0"
    /\ p_consumption' = RecoverPower(discriminant_value, p_consumption)
    /\ IF discriminant_value < 0
       THEN /\ expr1' = LinearTerm(q_resultant, i_resultant_a)
            /\ discriminant_value' = Discriminant(expr1', p_consumption')
       ELSE UNCHANGED <<expr1, discriminant_value>>
    /\ pc' = "volt0"
    /\ UNCHANGED <<args, params, solar, i_resultant_a, q_resultant, expr2,
                   capacit_term_volt, run_time_track, i3_a, log, outs, exc>>

(* Calculate initial voltage *)
InitVoltage ==
    /\ pc = "volt0"
    /\ expr2' = LinearTerm(q_resultant, i_resultant_a)
    /\ IF discriminant_value < 0
       THEN /\ Raise("ValueError", 81)
            /\ UNCHANGED <<capacit_term_volt, log, stdout, csv>>
       ELSE /\ capacit_term_volt' = NodeVoltage(expr2', discriminant_value)
            /\ log' = <<  <<run_time_track, capacit_term_volt'>>  >>
            /\ pc' = "limits0"
            /\ UNCHANGED <<outs, exc>>
    /\ UNCHANGED <<args, params, solar, elec, expr1, discriminant_value,
                   run_time_track, i3_a>>

(* Apply system constraints *)
InitConstraints ==
    /\ pc = "limits0"
    /\ i_resultant_a' = ArrayLimit(capacit_term_volt, i_resultant_a)
    /\ p_consumption' = LoadLimit(capacit_term_volt, p_consumption)
    /\ pc' = "while"
    /\ UNCHANGED <<args, params, solar, q_resultant, quad, run_time_track,
                   i3_a, log, outs, exc>>

----------------------------------------------------------------------------
(* Run the simulation loop *)

LoopTest ==
    /\ pc = "while"
    /\ pc' = IF LoopCond(Last(log)[1], dur_s) THEN "charge" ELSE "write"
    /\ UNCHANGED <<args, params, solar, elec, quad, run_time_track, i3_a,
                   log, outs, exc>>

\* variant of AdjustCharge: a zero voltage draws no load current
AdjustCharge_Sentinel ==
    /\ pc = "charge"
    /\ i3_a' = IF DivFaults(capacit_term_volt) THEN 0
               ELSE Div(p_consumption, capacit_term_volt)
    /\ q_resultant' =
         ClampCharge(q_resultant + (i_resultant_a - i3_a') * drun_time_track)
    /\ pc' = "array"
    /\ UNCHANGED <<args, params, solar, i_resultant_a, p_consumption, quad,
                   run_time_track, log, outs, exc>>

(* Load power and adjust charge *)
AdjustCharge ==
    /\ pc = "charge"
    /\ IF DivFaults(capacit_term_volt)
       THEN /\ Raise("ZeroDivisionError", 94)
            /\ UNCHANGED <<i3_a, q_resultant, stdout, csv>>
       ELSE /\ i3_a' = Div(p_consumption, capacit_term_volt)
            /\ q_resultant' =
                 ClampCharge(q_resultant
                             + (i_resultant_a - i3_a') * drun_time_track)
            /\ pc' = "array"
            /\ UNCHANGED <<outs, exc>>
    /\ UNCHANGED <<args, params, solar, i_resultant_a, p_consumption, quad,
                   run_time_track, log>>

(* Determine solar array behavior *)
SolarArray ==
    /\ pc = "array"
    /\ i_resultant_a' = ArrayCurrent(capacit_term_volt)
    /\ pc' = "reenable"
    /\ UNCHANGED <<args, params, solar, q_resultant, p_consumption, quad,
                   run_time_track, i3_a, log, outs, exc>>

(* Re-enable power mode if voltage is sufficient *)
ReEnablePower ==
    /\ pc = "reenable"
    /\ p_consumption' = ReEnable(p_consumption, capacit_term_volt)
    /\ pc' = "disc"
    /\ UNCHANGED <<args, params, solar, i_resultant_a, q_resultant, quad,
                   run_time_track, i3_a, log, outs, exc>>

(* Recalculate node voltage: the discriminant *)
LoopDiscriminant ==
    /\ pc = "disc"
    /\ expr1' = LinearTerm(q_resultant, i_resultant_a)
    /\ discriminant_value' = Discriminant(expr1', p_consumption)
    /\ pc' = "recover"
    /\ UNCHANGED <<args, params, solar, elec, expr2, capacit_term_volt,
                   run_time_track, i3_a, log, outs, exc>>

(* Recalculate node voltage: the negative discriminant *)
LoopRecover ==
    /\ pc = "recover"
    /\ p_consumption' = RecoverPower(discriminant_value, p_consumption)
    /\ IF discriminant_value < 0
       THEN /\ expr1' = LinearTerm(q_resultant, i_resultant_a)
            /\ discriminant_value' = Discriminant(expr1', p_consumption')
       ELSE UNCHANGED <<expr1, discriminant_value>>
    /\ pc' = "volt"
    /\ UNCHANGED <<args, params, solar, i_resultant_a, q_resultant, expr2,
                   capacit_term_volt, run_time_track, i3_a, log, outs, exc>>

(* Recalculate node voltage: the root *)
LoopVoltage ==
    /\ pc = "volt"
    /\ expr2' = LinearTerm(q_resultant, i_resultant_a)
    /\ IF discriminant_value < 0
       THEN /\ Raise("ValueError", 114)
            /\ UNCHANGED <<capacit_term_volt, stdout, csv>>
       ELSE /\ capacit_term_volt' = NodeVoltage(expr2', discriminant_value)
            /\ pc' = "limits"
            /\ UNCHANGED <<outs, exc>>
    /\ UNCHANGED <<args, params, solar, elec, expr1, discriminant_value,
                   run_time_track, i3_a, log>>

(* Apply power limitations using conditional check *)
LoopConstraints ==
    /\ pc = "limits"
    /\ i_resultant_a' = ArrayLimit(capacit_term_volt, i_resultant_a)
    /\ p_consumption' = LoadLimit(capacit_term_volt, p_consumption)
    /\ pc' = "store"
    /\ UNCHANGED <<args, params, solar, q_resultant, quad, run_time_track,
                   i3_a, log, outs, exc>>

(* Store simulation state *)
StoreState ==
    /\ pc = "store"
    /\ Len(log) < MaxSamples
    /\ log' = Append(log, <<run_time_track, capacit_term_volt>>)
    /\ run_time_track' = NextTime(run_time_track)
    /\ pc' = "while"
    /\ UNCHANGED <<args, params, solar, elec, quad, i3_a, outs, exc>>

----------------------------------------------------------------------------
(* Write results to CSV file: the header row, then one row per entry *)

\* str(x) of a float x with an integer value: "30.0", "-15.0"
FloatText(x) == ToString(x) \o ".0"

\* csvwriter.writerow(entry): the two fields of the entry as text
Row(entry) == <<FloatText(entry[1]), FloatText(entry[2])>>

\* variant of CsvRows: the rows are written from the second entry on
CsvRows_FromSecond(l) == [k \in 1 .. Len(l) - 1 |-> Row(l[k + 1])]

\* for entry in log: csvwriter.writerow(entry)
CsvRows(l) == [k \in 1 .. Len(l) |-> Row(l[k])]

Header == <<"Time (s)", "Voltage (V)">>

WriteCsv ==
    /\ pc = "write"
    /\ csv' = <<Header>> \o CsvRows(log)
    /\ exitcode' = 0
    /\ pc' = "done"
    /\ UNCHANGED <<args, params, solar, elec, quad, run_time_track, i3_a,
                   log, stdout, exc>>

----------------------------------------------------------------------------

Next ==
    \/ ParseArgs
    \/ SolarCurrent
    \/ InitDiscriminant
    \/ InitRecover
    \/ InitVoltage
    \/ InitConstraints
    \/ LoopTest
    \/ AdjustCharge
    \/ SolarArray
    \/ ReEnablePower
    \/ LoopDiscriminant
    \/ LoopRecover
    \/ LoopVoltage
    \/ LoopConstraints
    \/ StoreState
    \/ WriteCsv

Spec == Init /\ [][Next]_vars

\* the interpreter runs the script to its end: a statement that can run does
FairSpec == Spec /\ WF_vars(Next)

----------------------------------------------------------------------------
(* The initial-state computation in binary floating point.                 *)
(*                                                                         *)
(* A float format with FPrec bits of precision whose smallest positive     *)
(* value is 2^-FUnitBits and whose finite values are below                 *)
(* 2^(FTopBits - FUnitBits); a double has 53, 1074 and 2098.  A float is   *)
(* held as the integer number of smallest units it is worth, so every      *)
(* integer below 2^FPrec is a float (the subnormal range and the first     *)
(* binade) and above that a float is a multiple of a power of two.  Every  *)
(* operation rounds its exact result to the nearest float, ties to even.   *)

FPrec == 3
FUnitBits == 2
FTopBits == 14

RECURSIVE Pow2(_)
Pow2(k) == IF k <= 0 THEN 1 ELSE 2 * Pow2(k - 1)

RECURSIVE BitLen(_)
BitLen(n) == IF n <= 0 THEN 0 ELSE 1 + BitLen(n \div 2)

\* the float 1.0, in units
FOne == Pow2(FUnitBits)

\* the smallest normal float, in units: below it floats are evenly spaced
FMinNormal == Pow2(FPrec - 1)

\* the first value beyond the finite floats, in units
FHuge == Pow2(FTopBits)

\* the spacing of the floats around q units
FStep(q) == Pow2(IF BitLen(q) > FPrec THEN BitLen(q) - FPrec ELSE 0)

\* num / den units, num >= 0, rounded to the nearest float, ties to even
FRoundAbs(num, den) ==
    LET d   == den * FStep(num \div den)
        f   == num \div d
        rem == num - f * d
    IN  IF 2 * rem > d \/ (2 * rem = d /\ f % 2 = 1)
        THEN (f + 1) * FStep(num \div den)
        ELSE f * FStep(num \div den)

FRound(num, den) ==
    IF num < 0 THEN 0 - FRoundAbs(0 - num, den) ELSE FRoundAbs(num, den)

\* float(text) of a decimal text worth n units
FloatOf(n) == FRound(n, 1)

\* a + b, a * b, a / b (b # 0) of floats
FAdd(a, b) == FRound(a + b, 1)
FMul(a, b) == FRound(a * b, FOne)
FDiv(a, b) == IF b > 0 THEN FRound(a * FOne, b) ELSE FRound((0 - a) * FOne, 0 - b)

\* math.sqrt(a), a >= 0: the float nearest to the root of a * FOne units^2
FSqrt(a) ==
    LET n    == a * FOne
        step == FStep(ISqrt(n))
        f    == ISqrt(n \div (step * step))
        m    == (2 * f + 1) * step
    IN  IF 4 * n > m * m \/ (4 * n = m * m /\ f % 2 = 1)
        THEN (f + 1) * step
        ELSE f * step

\* expr1**2 raises OverflowError when the square is beyond the finite floats
SquareOverflows(e) == FMul(e, e) >= FHuge

\* irrad = 1336.1
FIrrad == FRound(irrad * FOne, 10)

\* q_resultant / c_f + i_resultant_a * r_esr
FLinearTerm(q, i) == FAdd(FDiv(q, c_f), FMul(i, r_esr))

\* expr1**2 - 4 * p_consumption * r_esr
FDiscriminant(e, p) ==
    FAdd(FMul(e, e), 0 - FMul(FMul(4 * FOne, p), r_esr))

\* variant of FNodeVoltage: the other root
FNodeVoltage_LowerRoot(e, d) == FDiv(FAdd(e, 0 - FSqrt(d)), 2 * FOne)

\* (expr2 + math.sqrt(discriminant_value)) / 2
FNodeVoltage(e, d) == FDiv(FAdd(e, FSqrt(d)), 2 * FOne)

\* the texts of the arguments, in units; the charge runs through the
\* subnormal range, the first binades and up to where the square overflows
FSaSet   == {0, 1}
FEffSet  == {FOne}
FVocSet  == {0, 20 * FOne}
FCfSet   == {0, FOne, 2 * FOne}
FResrSet == {0, FOne}
FQ0Set   == (-2 .. 6 * FOne) \cup {40 * FOne, 64 * FOne, 80 * FOne}
FPonSet  == {0, FOne, 400 * FOne}

FloatArgs ==
    { <<a, e, v, c, r, q, p, 10 * FOne, FOne, 0>> :
        a \in FSaSet, e \in FEffSet, v \in FVocSet, c \in FCfSet,
        r \in FResrSet, q \in FQ0Set, p \in FPonSet }

FloatInit ==
    /\ argc = 11
    /\ argv \in FloatArgs
    /\ sa_m2 = nan /\ eff = nan /\ voc = nan /\ c_f = nan /\ r_esr = nan
    /\ q0_c = nan /\ p_on_w = nan /\ v_thresh = nan
    /\ drun_time_track = nan /\ dur_s = nan
    /\ power_generated = unbound /\ effective_power = unbound
    /\ short_circ_current = unbound
    /\ i_resultant_a = unbound /\ q_resultant = unbound
    /\ p_consumption = unbound /\ run_time_track = unbound
    /\ expr1 = unbound /\ discriminant_value = unbound /\ expr2 = unbound
    /\ capacit_term_volt = unbound
    /\ i3_a = unbound
    /\ log = <<>>
    /\ stdout = <<>>
    /\ csv = none
    /\ exitcode = unbound
    /\ exc = none
    /\ pc = "f_parse"

(* Check and parse command-line arguments *)
FloatParseArgs ==
    /\ pc = "f_parse"
    /\ sa_m2' = FloatOf(argv[1]) /\ eff' = FloatOf(argv[2])
    /\ voc' = FloatOf(argv[3]) /\ c_f' = FloatOf(argv[4])
    /\ r_esr' = FloatOf(argv[5]) /\ q0_c' = FloatOf(argv[6])
    /\ p_on_w' = FloatOf(argv[7]) /\ v_thresh' = FloatOf(argv[8])
    /\ drun_time_track' = FloatOf(argv[9]) /\ dur_s' = FloatOf(argv[10])
    /\ pc' = "f_solar"
    /\ UNCHANGED <<args, solar, elec, quad, run_time_track, i3_a, log, outs, exc>>

(* Calculation of solar current *)
FloatSolarCurrent ==
    /\ pc = "f_solar"
    /\ power_generated' = FMul(FIrrad, sa_m2)
    /\ effective_power' = FMul(power_generated', eff)
    /\ IF DivFaults(voc)
       THEN /\ Raise("ZeroDivisionError", 63)
            /\ UNCHANGED <<short_circ_current, elec, run_time_track, stdout, csv>>
       ELSE /\ short_circ_current' = FDiv(effective_power', voc)
            /\ i_resultant_a' = short_circ_current'
            /\ q_resultant' = q0_c
            /\ p_consumption' = p_on_w
            /\ run_time_track' = 0
            /\ pc' = "f_disc0"
            /\ UNCHANGED <<outs, exc>>
    /\ UNCHANGED <<args, params, quad, i3_a, log>>

(* Discriminant calculation *)
FloatInitDiscriminant ==
    /\ pc = "f_disc0"
    /\ IF DivFaults(c_f)
       THEN /\ Raise("ZeroDivisionError", 70)
            /\ UNCHANGED <<expr1, discriminant_value, stdout, csv>>
       ELSE /\ expr1' = FLinearTerm(q_resultant, i_resultant_a)
            /\ IF SquareOverflows(expr1')
               THEN /\ Raise("OverflowError", 71)
                    /\ UNCHANGED <<discriminant_value, stdout, csv>>
               ELSE /\ discriminant_value' = FDiscriminant(expr1', p_consumption)
                    /\ pc' = "f_recover0"
                    /\ UNCHANGED <<outs, exc>>
    /\ UNCHANGED <<args, params, solar, elec, expr2, capacit_term_volt,
                   run_time_track, i3_a, log>>

(* Handle invalid discriminant scenario *)
FloatInitRecover ==
    /\ pc = "f_recover0"
    /\ p_consumption' = RecoverPower(discriminant_value, p_consumption)
    /\ IF discriminant_value < 0
       THEN /\ expr1' = FLinearTerm(q_resultant, i_resultant_a)
            /\ discriminant_value' = FDiscriminant(expr1', p_consumption')
       ELSE UNCHANGED <<expr1, discriminant_value>>
    /\ pc' = "f_volt0"
    /\ UNCHANGED <<args, params, solar, i_resultant_a, q_resultant, expr2,
                   capacit_term_volt, run_time_track, i3_a, log, outs, exc>>

(* Calculate initial voltage *)
FloatInitVoltage ==
    /\ pc = "f_volt0"
    /\ expr2' = FLinearTerm(q_resultant, i_resultant_a)
    /\ IF discriminant_value < 0
       THEN /\ Raise("ValueError", 81)
            /\ UNCHANGED <<capacit_term_volt, log, stdout, csv>>
       ELSE /\ capacit_term_volt' = FNodeVoltage(expr2', discriminant_value)
            /\ log' = <<  <<run_time_track, capacit_term_volt'>>  >>
            /\ pc' = "f_logged"
            /\ UNCHANGED <<outs, exc>>
    /\ UNCHANGED <<args, params, solar, elec, expr1, discriminant_value,
                   run_time_track, i3_a>>

FloatNext ==
    \/ FloatParseArgs
    \/ FloatSolarCurrent
    \/ FloatInitDiscriminant
    \/ FloatInitRecover
    \/ FloatInitVoltage

\* the script up to its first sample, in floating point
FloatSpec == FloatInit /\ [][FloatNext]_vars

----------------------------------------------------------------------------
(* Properties *)

\* the time of the k-th sample
TimeOf(k) == log[k][1]

\* the run has left the loop normally
LoopLeft == pc \in {"write", "done"}

\* C1: the sample sequence starts at time 0 and every later sample's time is
\* the preceding sample's time plus the time step, so no two samples share a
\* time
C1_MonotonicTime ==
    Len(log) >= 1 =>
        /\ TimeOf(1) = 0
        /\ \A k \in 2 .. Len(log) : TimeOf(k) = TimeOf(k - 1) + drun_time_track

\* the sample count of the Termination property
ExpectedCount ==
    IF dur_s % drun_time_track = 0
    THEN (dur_s \div drun_time_track) + 1
    ELSE (dur_s \div drun_time_track) + 2

\* C2: a run that does not fault emits floor(dur/dt) + 1 samples when the
\* duration is a multiple of the step and floor(dur/dt) + 2 otherwise
C2_SampleCount == LoopLeft => Len(log) = ExpectedCount

\* C3: only the last sample of a completed run has a time >= the duration;
\* every sample before the last one has a time below the duration
C3_OnlyLastReachesDuration ==
    Len(log) >= 1 =>
        /\ \A k \in 1 .. Len(log) - 1 : TimeOf(k) < dur_s
        /\ LoopLeft => TimeOf(Len(log)) >= dur_s

C3_Witness ==
    /\ pc = "done"
    /\ Len(log) >= 4
    /\ TimeOf(Len(log)) > dur_s

LoopFault == pc = "fault" /\ exc = <<"ZeroDivisionError", 94>>

ChargeUpdated ==
    \/ pc \in {"array", "reenable", "disc", "recover", "volt", "limits", "store"}
    \/ Len(log) >= 2

\* C6: after the charge update of every iteration the charge is >= 0
C6_ChargeNonNegative == ChargeUpdated => q_resultant >= 0

\* the first update from a negative sum: the clamp has acted
C6_Witness ==
    /\ pc = "array"
    /\ Len(log) = 1
    /\ q0_c + (i_resultant_a - i3_a) * drun_time_track < 0
    /\ q_resultant = 0

\* C7: at the end of the initial computation and of every iteration, a
\* voltage at or above the open-circuit voltage means the source current is 0
C7_ArrayDisconnect ==
    pc \in {"while", "charge", "store", "write", "done"} =>
        (capacit_term_volt >= voc => i_resultant_a = 0)

\* the iteration computed its voltage with the array connected (the previous
\* sample was inside [0, voc)) and the constraint has cut the current
C7_Witness ==
    /\ pc = "store"
    /\ short_circ_current # 0
    /\ 0 <= log[Len(log)][2] /\ log[Len(log)][2] < voc
    /\ capacit_term_volt >= voc
    /\ i_resultant_a = 0

\* C8: a negative first discriminant sets the load power to 0 and the
\* recomputed discriminant is >= 0; the square root never gets a negative
\* argument
C8_DiscriminantRecovery ==
    [][ /\ (pc \in {"recover0", "recover"} /\ discriminant_value < 0)
              => (p_consumption' = 0 /\ discriminant_value' >= 0)
        /\ pc' \in {"volt0", "volt"} => discriminant_value' >= 0
      ]_vars

C8_Witness ==
    /\ pc = "volt0"
    /\ Discriminant(expr1, p_on_w) < 0
    /\ p_consumption = 0
    /\ discriminant_value = expr1 * expr1

\* C9: an iteration that begins with voltage 0 aborts at the load-current
\* computation: nothing of the state changes, no sample is appended, log.csv
\* is not written and the run does not continue
C9_DivisionFault ==
    [][ /\ (pc = "charge" /\ capacit_term_volt = 0)
              => /\ pc' = "fault"
                 /\ exc' = <<"ZeroDivisionError", 94>>
                 /\ csv' = none
                 /\ UNCHANGED <<elec, quad, run_time_track, i3_a, log>>
        /\ pc # "fault"
      ]_vars

C9_Witness ==
    /\ LoopFault
    /\ Len(log) >= 2
    /\ capacit_term_volt = 0
    /\ csv = none

\* C10 as stated: the iteration runs at least once, so a completed run has at
\* least two samples
C10_AtLeastOneIteration == LoopLeft => Len(log) >= 2

\* C10 amended: the first loop test enters the iteration exactly when the
\* duration is > 0; a completed run has at least two samples when the
\* duration is > 0 and exactly the initial sample when it is 0
C10_IterationIffPositiveDuration ==
    [][ /\ (pc = "while" /\ Len(log) = 1)
              => pc' = IF dur_s > 0 THEN "charge" ELSE "write"
        /\ pc' = "write"
              => IF dur_s > 0 THEN Len(log') >= 2 ELSE Len(log') = 1
      ]_vars

C10_Witness ==
    /\ pc = "write"
    /\ dur_s = 0
    /\ Len(log) = 1

\* C11: started with a number of positional arguments other than ten, the
\* script prints the diagnostic and stops: no parameter is set, nothing is
\* computed, no sample exists and log.csv is not written
C11_WrongArgCountStops ==
    [][ /\ (pc = "parse" /\ argc # 11)
              => /\ pc' = "exit"
                 /\ stdout' = <<"Incorrect amount of arguments">>
                 /\ log' = <<>>
                 /\ csv' = none
                 /\ UNCHANGED <<params, solar, elec, quad, run_time_track, i3_a>>
        /\ pc # "exit"
      ]_vars

C11_Witness ==
    /\ pc = "exit"
    /\ argc # 11
    /\ Len(stdout) = 1
    /\ sa_m2 = nan /\ dur_s = nan
    /\ short_circ_current = unbound
    /\ log = <<>>
    /\ csv = none

\* C12: started with a number of positional arguments other than ten, the
\* script terminates with a nonzero exit status
C12_NonzeroExit == (pc = "exit" /\ argc # 11) => exitcode # 0

\* C14: on a run that completes the loop, log.csv holds the header row and
\* then one row per sample, row k being the k-th sample; the file is written
\* only after the loop has ended
C14_CsvRowsFollowSamples ==
    /\ csv # none => pc = "done"
    /\ pc = "done" =>
          /\ Len(csv) = Len(log) + 1
          /\ csv[1] = Header
          /\ \A k \in 1 .. Len(log) :
                csv[k + 1] = <<FloatText(log[k][1]), FloatText(log[k][2])>>

C14_Witness ==
    /\ pc = "done"
    /\ Len(log) >= 4
    /\ Len(csv) = Len(log) + 1
    /\ csv[2][2] # csv[Len(csv)][2]

\* the voltage of the previous sample
PrevVolt == log[Len(log)][2]

\* the positions of an iteration between the source-current update and the
\* voltage computation
BeforeVoltage == pc \in {"reenable", "disc", "recover", "volt"}

\* C15: the source current an iteration computes its voltage with is the
\* short-circuit current if the previous sample's voltage is in [0, voc) and
\* 0 otherwise
C15_ArrayReconnection ==
    BeforeVoltage =>
        i_resultant_a = IF 0 <= PrevVolt /\ PrevVolt < voc
                        THEN short_circ_current ELSE 0

\* the sample before the previous one was at or above voc, where the current
\* was cut; the previous one is back inside [0, voc) and the current is back
C15_Witness ==
    /\ pc = "disc"
    /\ Len(log) >= 2
    /\ log[Len(log) - 1][2] >= voc
    /\ 0 <= PrevVolt /\ PrevVolt < voc
    /\ short_circ_current # 0
    /\ i_resultant_a = short_circ_current

Computed == short_circ_current # unbound

\* C17: load power is 0 or p_on_w and source current is 0 or the
\* short-circuit current, in every state of a run
C17_TwoValued ==
    Computed =>
        /\ p_consumption \in {0, p_on_w}
        /\ i_resultant_a \in {0, short_circ_current}

C17_Witness ==
    /\ pc = "store"
    /\ p_on_w # 0 /\ p_consumption = 0
    /\ short_circ_current # 0 /\ i_resultant_a = 0
    /\ discriminant_value = expr1 * expr1
    /\ Discriminant(expr1, p_on_w) < 0

\* the charge update of an iteration that begins with a positive voltage at
\* or above voc
UpdateAboveVoc ==
    /\ pc = "charge" /\ pc' = "array"
    /\ p_on_w >= 0 /\ drun_time_track > 0
    /\ capacit_term_volt >= voc /\ capacit_term_volt > 0

\* C18 as stated: with p_on_w >= 0 and a positive time step, the charge
\* update that follows a sample with positive voltage >= voc does not raise
\* the charge
C18_NoChargeAboveVoc ==
    [][ UpdateAboveVoc => q_resultant' <= q_resultant ]_vars

\* C18 amended: the same, for a charge that is >= 0 before the update (as it
\* is in every iteration when the initial charge is >= 0)
C18_NoChargeAboveVocFromNonNegative ==
    [][ (UpdateAboveVoc /\ q_resultant >= 0) => q_resultant' <= q_resultant ]_vars

\* first update, from a sample at or above voc: the load has drawn charge
C18_Witness ==
    /\ pc = "array"
    /\ Len(log) = 1
    /\ p_on_w > 0
    /\ q0_c >= 0
    /\ capacit_term_volt >= voc /\ capacit_term_volt > 0
    /\ i_resultant_a = 0
    /\ short_circ_current > 0
    /\ q_resultant < q0_c

\* the parameter ranges of C19
PhysicalInput ==
    /\ Computed
    /\ q0_c >= 0 /\ c_f > 0 /\ r_esr >= 0
    /\ short_circ_current >= 0 /\ p_on_w >= 0

\* C19 as stated: for physical inputs every sample's voltage is >= 0 and the
\* source current an iteration uses is 0 only when the previous sample's
\* voltage is >= voc
C19_ZeroCurrentOnlyAboveVoc ==
    PhysicalInput =>
        /\ \A k \in 1 .. Len(log) : log[k][2] >= 0
        /\ (BeforeVoltage /\ i_resultant_a = 0) => PrevVolt >= voc

\* C19 amended: for physical inputs every sample's voltage is >= 0 and the
\* source current an iteration uses differs from the short-circuit current
\* only when the previous sample's voltage is >= voc
C19_CurrentCutOnlyAboveVoc ==
    PhysicalInput =>
        /\ \A k \in 1 .. Len(log) : log[k][2] >= 0
        /\ (BeforeVoltage /\ i_resultant_a # short_circ_current)
              => PrevVolt >= voc

\* a later iteration of a run with a working array, begun at or above voc
C19_Witness ==
    /\ PhysicalInput
    /\ pc = "disc"
    /\ Len(log) >= 3
    /\ short_circ_current > 0
    /\ PrevVolt >= voc
    /\ i_resultant_a = 0
    /\ log[Len(log) - 1][2] < voc

\* the first sample of the floating-point run, with no load power and a
\* non-negative linear term
FirstSampleNoLoad ==
    /\ pc = "f_logged"
    /\ p_on_w = 0
    /\ FLinearTerm(q0_c, short_circ_current) >= 0

\* C13 as stated: with no load power and a non-negative linear term, the
\* voltage of the first sample equals the linear term exactly
C13_FirstVoltageIsLinearTerm ==
    FirstSampleNoLoad => log[1][2] = FLinearTerm(q0_c, short_circ_current)

\* the square of the linear term is 0 or a normal float
SquareIsNormal ==
    LET e == FLinearTerm(q0_c, short_circ_current)
    IN  e = 0 \/ FMul(e, e) >= FMinNormal

\* C13 amended: the same, when the square of the linear term does not
\* underflow (it is 0 or a normal float)
C13_FirstVoltageIsLinearTermNoUnderflow ==
    (FirstSampleNoLoad /\ SquareIsNormal)
        => log[1][2] = FLinearTerm(q0_c, short_circ_current)

\* a first sample from a linear term that is not a power of two and has a
\* charge part and a current part
C13_Witness ==
    /\ FirstSampleNoLoad
    /\ SquareIsNormal
    /\ q0_c > 0 /\ short_circ_current > 0 /\ r_esr > 0
    /\ log[1][2] = FLinearTerm(q0_c, short_circ_current)
    /\ log[1][2] > 0

====
